---- MODULE Spec2Model ----
(***************************************************************************)
(* Model of `it` (src/src/main.rs): a line editor that, for every file on  *)
(* the command line, inserts/overwrites a line, appends a line, or clears  *)
(* a range of lines, then rewrites the file (or prints it under --dry-run).*)
(*                                                                         *)
(* Strings are sequences of one-character strings; NL is '\n'.  The        *)
(* alphabet holds no carriage return, so the "\r\n" case of str::lines     *)
(* does not arise.  Option<T> is a sequence of length 0 (None) or 1 (Some).*)
(* File-system calls either succeed or fail as a whole: open(), copy() and *)
(* metadata() may fail, a write to an opened file completes.               *)
(***************************************************************************)
EXTENDS Integers, Sequences, FiniteSets, TLC

VARIABLES
    cfg,          \* the parsed command line (main.rs 123-131)
    files,        \* file_paths, in command-line order
    idx,          \* position of the for loop in file_paths (1-based)
    pc,           \* position inside the loop body
    fs,           \* path -> state of the target file
    bak,          \* path -> state of "<path>.bak"
    fs0,          \* the file system before the invocation
    stdin,        \* unread standard input
    stdout,       \* everything printed so far
    insert_text,  \* loop-local insert_text (main.rs 157)
    append_text,  \* loop-local append_text (main.rs 164)
    content,      \* loop-local content (main.rs 205)
    lines,        \* loop-local lines (main.rs 211)
    branch,       \* which operation branch ran for the current file
    result,       \* "running", "ok" or "err": main's io::Result
    errKind       \* which error main returned

vars == <<cfg, files, idx, pc, fs, bak, fs0, stdin, stdout, insert_text,
          append_text, content, lines, branch, result, errKind>>

\* ------------------------------------------------------------------ bounds
MaxLines == 3
MaxLine == 3
NumFiles == 2

\* ----------------------------------------------------------------- strings
NL == "\n"

None == <<>>

Some(v) == <<v>>

IsSome(o) == Len(o) = 1

Unwrap(o) == o[1]

UnwrapOr(o, d) == IF IsSome(o) THEN o[1] ELSE d

\* usize::saturating_sub
SaturatingSub(a, b) == IF a >= b THEN a - b ELSE 0

\* str::ends_with('\n')
EndsWithNL(s) == Len(s) > 0 /\ s[Len(s)] = NL

\* str::trim_end: the only whitespace of the alphabet is NL
RECURSIVE TrimEnd(_)
TrimEnd(s) == IF EndsWithNL(s) THEN TrimEnd(SubSeq(s, 1, Len(s) - 1)) ELSE s

\* the pieces of s between the '\n' characters, the last piece included
RECURSIVE SplitNL(_, _)
SplitNL(s, cur) ==
    IF s = <<>> THEN <<cur>>
    ELSE IF Head(s) = NL THEN <<cur>> \o SplitNL(Tail(s), <<>>)
    ELSE SplitNL(Tail(s), Append(cur, Head(s)))

\* str::lines(): split at '\n'; a final empty piece is not a line
Lines(s) ==
    LET p == SplitNL(s, <<>>)
    IN  IF p[Len(p)] = <<>> THEN SubSeq(p, 1, Len(p) - 1) ELSE p

\* [String]::join("\n")
RECURSIVE Join(_)
Join(ls) ==
    IF ls = <<>> THEN <<>>
    ELSE IF Len(ls) = 1 THEN ls[1]
    ELSE ls[1] \o <<NL>> \o Join(Tail(ls))

\* ------------------------------------------------------------- file system
Absent == [kind |-> "absent", ro |-> FALSE, data |-> <<>>]

Dir == [kind |-> "dir", ro |-> FALSE, data |-> <<>>]

File(d, r) == [kind |-> "file", ro |-> r, data |-> d]

\* Path::exists
Exists(f) == f.kind # "absent"

\* Path::is_dir
IsDir(f) == f.kind = "dir"

\* read_to_string of an existing file, "" when the path does not exist
ReadContent(f) == IF Exists(f) THEN f.data ELSE <<>>

\* ------------------------------------------------------------ line buffer
\* a buffer that is left empty
NormalizeSkipped(ls) == ls

\* if lines.is_empty() { lines.push(String::new()) }
Normalize(ls) == IF ls = <<>> THEN << <<>> >> ELSE ls

\* the Loader: content.lines() followed by the normalisation
Load(c) == Normalize(Lines(c))

\* Vec::resize(n, String::new())
Resize(ls, n) ==
    IF n >= Len(ls) THEN ls \o [k \in 1..(n - Len(ls)) |-> <<>>]
    ELSE SubSeq(ls, 1, n)

\* Vec::insert(i, t), i 0-based
VecInsert(ls, i, t) == SubSeq(ls, 1, i) \o <<t>> \o SubSeq(ls, i + 1, Len(ls))

\* a drain that stops one line early: drain(s..e-1)
DrainShort(ls, s, e) == SubSeq(ls, 1, s) \o SubSeq(ls, e, Len(ls))

\* Vec::drain(s..e), s and e 0-based, s <= e <= len
Drain(ls, s, e) == SubSeq(ls, 1, s) \o SubSeq(ls, e + 1, Len(ls))

\* a start check that is off by one: start_idx > lines.len()
StartBeyondEndStrict(start_idx, n) == start_idx > n

\* start_idx >= lines.len()
StartBeyondEnd(start_idx, n) == start_idx >= n

\* end_idx > lines.len()
EndBeyondEnd(end_idx, n) == end_idx > n

\* the insert/overwrite branch: auto-grow, then overwrite or insert
InsertOrOverwrite(ls, line_num, overwrite, text) ==
    LET insert_line == SaturatingSub(UnwrapOr(line_num, 1), 1)
        grown == IF insert_line >= Len(ls) THEN Resize(ls, insert_line + 1) ELSE ls
    IN  IF overwrite THEN [grown EXCEPT ![insert_line + 1] = text]
        ELSE VecInsert(grown, insert_line, text)

\* the bytes the commit branch writes: the joined lines, then one more '\n'
\* when the buffer is non-empty and the content read did not end with '\n'
Serialize(ls, c) ==
    Join(ls) \o (IF ls # <<>> /\ ~EndsWithNL(c) THEN <<NL>> ELSE <<>>)

\* println!("{}", lines.join("\n"))
Printed(ls) == Join(ls) \o <<NL>>

\* the append fast path, commit: writeln!(file, "{}", text) in append mode
AppendCommit(data, text) == data \o text \o <<NL>>

\* the append fast path, dry run: lines of the file, text pushed, printed
AppendDryRun(data, text) == Printed(Append(Lines(data), text))

\* ------------------------------------------------------------------ inputs
LineSet == {<<>>, <<"a">>, <<"b">>}

LineSeqs(n) == UNION {[1..k -> LineSet] : k \in 0..n}

Contents == {Join(ls) \o t : ls \in LineSeqs(MaxLines), t \in {<<>>, <<NL>>}}

Texts == {<<>>, <<"x">>}

StdinSet == {<<"y", NL>>}

LineNums == {None} \cup {Some(n) : n \in 1..MaxLine}

\* what the --clear value parser accepts: start >= 1, and start <= end if given
ClearRanges ==
    {<<s, None>> : s \in 1..MaxLine}
        \cup {<<s, Some(e)>> : s \in 1..MaxLine, e \in 1..MaxLine}

ParsedRanges == {r \in ClearRanges : IsSome(r[2]) => r[1] <= Unwrap(r[2])}

Config(ln, ow, it, at, cr, b, i, d) ==
    [line_num |-> ln, overwrite |-> ow, insert_text |-> it, append_text |-> at,
     clear_range |-> cr, backup |-> b, interactive |-> i, dry_run |-> d]

\* the "operation" ArgGroup: at most one of insert, append, clear.  --line and
\* --overwrite are drawn only where the code reads them (no append, no clear).
Operations(texts, lineNums, ranges) ==
    {<<ln, ow, it, None, None>> :
        ln \in lineNums, ow \in BOOLEAN, it \in {None} \cup {Some(t) : t \in texts}}
    \cup {<<None, FALSE, None, Some(t), None>> : t \in texts}
    \cup {<<None, FALSE, None, None, Some(r)>> : r \in ranges}

Configs(texts, lineNums, ranges) ==
    {Config(o[1], o[2], o[3], o[4], o[5], b, i, d) :
        o \in Operations(texts, lineNums, ranges),
        b \in BOOLEAN, i \in BOOLEAN, d \in BOOLEAN}

FileStates(contents) ==
    {Absent, Dir} \cup {File(c, r) : c \in contents, r \in BOOLEAN}

RunContents == {<<>>, <<"a", NL>>, <<"a", NL, "b">>}

RunFileStates ==
    {Absent, Dir, File(<<"a", NL>>, TRUE)} \cup {File(c, FALSE) : c \in RunContents}

RunConfigs == Configs({<<"x">>}, {None}, {<<2, None>>})

InitWith(n, fileStates, configs) ==
    /\ cfg \in configs
    /\ files = [k \in 1..n |-> k]
    /\ idx = 1
    /\ pc = "validate"
    /\ fs \in [1..n -> fileStates]
    /\ bak = [k \in 1..n |-> Absent]
    /\ fs0 = fs
    /\ stdin \in (IF cfg.interactive THEN StdinSet ELSE {<<>>})
    /\ stdout = <<>>
    /\ insert_text = None
    /\ append_text = None
    /\ content = <<>>
    /\ lines = <<>>
    /\ branch = "none"
    /\ result = "running"
    /\ errKind = "none"

\* one file on the command line, every content and every operation
Init == InitWith(1, FileStates(Contents), Configs(Texts, LineNums, ParsedRanges))

\* several files on the command line
InitRun == InitWith(NumFiles, RunFileStates, RunConfigs)

path == files[idx]

\* ----------------------------------------------------------------- actions
\* an error that skips the file and goes on with the next one
FailAndContinue(kind) ==
    /\ pc' = "next"
    /\ result' = result
    /\ errKind' = kind

\* return Err(..) / the ? operator: main returns, nothing else runs
Fail(kind) ==
    /\ pc' = "failed"
    /\ result' = "err"
    /\ errKind' = kind

Goto(p) ==
    /\ pc' = p
    /\ UNCHANGED <<result, errKind>>

\* main.rs 134-154: the path must not be a directory nor a read-only file
Validate ==
    /\ pc = "validate"
    /\ LET f == fs[path]
       IN  IF IsDir(f) THEN Fail("IsDirectory")
           ELSE IF Exists(f)
                THEN \/ Fail("CannotAccess")
                     \/ IF f.ro THEN Fail("PermissionDenied") ELSE Goto("interactive")
                ELSE Goto("interactive")
    /\ UNCHANGED <<cfg, files, idx, fs, bak, fs0, stdin, stdout, insert_text,
                   append_text, content, lines, branch>>

\* main.rs 156-170: under --interactive without --clear, each text that was
\* not given is read from stdin (read_to_string to end of input, trim_end)
Interactive ==
    /\ pc = "interactive"
    /\ LET readI == cfg.interactive /\ ~IsSome(cfg.insert_text)
                        /\ ~IsSome(cfg.clear_range)
           s1 == IF readI THEN <<>> ELSE stdin
           readA == cfg.interactive /\ ~IsSome(cfg.append_text)
                        /\ ~IsSome(cfg.clear_range)
       IN  /\ insert_text' = IF readI THEN Some(TrimEnd(stdin)) ELSE cfg.insert_text
           /\ append_text' = IF readA THEN Some(TrimEnd(s1)) ELSE cfg.append_text
           /\ stdin' = IF readA THEN <<>> ELSE s1
    /\ Goto("backup")
    /\ UNCHANGED <<cfg, files, idx, fs, bak, fs0, stdout, content, lines, branch>>

\* main.rs 172-181: fs::copy(file_path, file_path + ".bak")
Backup ==
    /\ pc = "backup"
    /\ IF cfg.backup /\ Exists(fs[path])
       THEN \/ /\ bak' = [bak EXCEPT ![path] = fs[path]]
               /\ Goto("dispatch")
            \/ /\ Fail("BackupFailed")
               /\ UNCHANGED bak
       ELSE /\ Goto("dispatch")
            /\ UNCHANGED bak
    /\ UNCHANGED <<cfg, files, idx, fs, fs0, stdin, stdout, insert_text,
                   append_text, content, lines, branch>>

\* main.rs 183-202: append without loading the buffer, then `continue`
AppendFast ==
    /\ pc = "dispatch"
    /\ IsSome(append_text)
    /\ LET text == Unwrap(append_text)
           data == ReadContent(fs[path])
       IN  \/ /\ ~cfg.dry_run
              /\ fs' = [fs EXCEPT ![path] = File(AppendCommit(data, text), FALSE)]
              /\ UNCHANGED stdout
              /\ branch' = "append"
              /\ Goto("next")
           \/ /\ cfg.dry_run
              /\ stdout' = stdout \o AppendDryRun(data, text)
              /\ UNCHANGED fs
              /\ branch' = "append"
              /\ Goto("next")
           \/ /\ ~cfg.dry_run \/ Exists(fs[path])
              /\ Fail("Io")
              /\ UNCHANGED <<fs, stdout, branch>>
    /\ UNCHANGED <<cfg, files, idx, bak, fs0, stdin, insert_text, append_text,
                   content, lines>>

\* main.rs 204-214: read the file (missing file: empty), split, normalise
LoadBuffer ==
    /\ pc = "dispatch"
    /\ ~IsSome(append_text)
    /\ \/ /\ content' = ReadContent(fs[path])
          /\ lines' = Load(content')
          /\ Goto("apply")
       \/ /\ Exists(fs[path])
          /\ Fail("Io")
          /\ UNCHANGED <<content, lines>>
    /\ UNCHANGED <<cfg, files, idx, fs, bak, fs0, stdin, stdout, insert_text,
                   append_text, branch>>

\* main.rs 217-236: clear mode
Clear ==
    /\ pc = "apply"
    /\ IsSome(cfg.clear_range)
    /\ LET start == Unwrap(cfg.clear_range)[1]
           end == Unwrap(cfg.clear_range)[2]
           start_idx == SaturatingSub(start, 1)
           end_idx == UnwrapOr(end, Len(lines))
       IN  IF StartBeyondEnd(start_idx, Len(lines))
           THEN Fail("StartBeyondEnd") /\ UNCHANGED <<lines, branch>>
           ELSE IF EndBeyondEnd(end_idx, Len(lines))
           THEN Fail("EndBeyondEnd") /\ UNCHANGED <<lines, branch>>
           ELSE /\ lines' = Normalize(Drain(lines, start_idx, end_idx))
                /\ branch' = "clear"
                /\ Goto("write")
    /\ UNCHANGED <<cfg, files, idx, fs, bak, fs0, stdin, stdout, insert_text,
                   append_text, content>>

\* main.rs 237-247: insert mode, text given
Insert ==
    /\ pc = "apply"
    /\ ~IsSome(cfg.clear_range)
    /\ IsSome(insert_text)
    /\ lines' = InsertOrOverwrite(lines, cfg.line_num, cfg.overwrite,
                                  Unwrap(insert_text))
    /\ branch' = IF cfg.overwrite THEN "overwrite" ELSE "insert"
    /\ Goto("write")
    /\ UNCHANGED <<cfg, files, idx, fs, bak, fs0, stdin, stdout, insert_text,
                   append_text, content>>

\* main.rs 248-258: --line or --overwrite without text: an empty line
InsertEmpty ==
    /\ pc = "apply"
    /\ ~IsSome(cfg.clear_range)
    /\ ~IsSome(insert_text)
    /\ IsSome(cfg.line_num) \/ cfg.overwrite
    /\ lines' = InsertOrOverwrite(lines, cfg.line_num, cfg.overwrite, <<>>)
    /\ branch' = IF cfg.overwrite THEN "overwrite" ELSE "insert"
    /\ Goto("write")
    /\ UNCHANGED <<cfg, files, idx, fs, bak, fs0, stdin, stdout, insert_text,
                   append_text, content>>

\* main.rs 259-262: no operation flag: push an empty line
DefaultAppendEmpty ==
    /\ pc = "apply"
    /\ ~IsSome(cfg.clear_range)
    /\ ~IsSome(insert_text)
    /\ ~(IsSome(cfg.line_num) \/ cfg.overwrite)
    /\ lines' = Append(lines, <<>>)
    /\ branch' = "default"
    /\ Goto("write")
    /\ UNCHANGED <<cfg, files, idx, fs, bak, fs0, stdin, stdout, insert_text,
                   append_text, content>>

\* main.rs 264-277: print the buffer, or truncate the file and write it
WriteResult ==
    /\ pc = "write"
    /\ \/ /\ cfg.dry_run
          /\ stdout' = stdout \o Printed(lines)
          /\ UNCHANGED fs
          /\ Goto("next")
       \/ /\ ~cfg.dry_run
          /\ fs' = [fs EXCEPT ![path] = File(Serialize(lines, content), FALSE)]
          /\ UNCHANGED stdout
          /\ Goto("next")
       \/ /\ ~cfg.dry_run
          /\ Fail("Io")
          /\ UNCHANGED <<fs, stdout>>
    /\ UNCHANGED <<cfg, files, idx, bak, fs0, stdin, insert_text, append_text,
                   content, lines, branch>>

\* main.rs 133, 278-280: the next file_path, or Ok(()) after the last one
NextFile ==
    /\ pc = "next"
    /\ IF idx < Len(files)
       THEN /\ idx' = idx + 1
            /\ insert_text' = None
            /\ append_text' = None
            /\ content' = <<>>
            /\ lines' = <<>>
            /\ branch' = "none"
            /\ Goto("validate")
       ELSE /\ pc' = "done"
            /\ result' = "ok"
            /\ UNCHANGED <<idx, insert_text, append_text, content, lines, branch,
                           errKind>>
    /\ UNCHANGED <<cfg, files, fs, bak, fs0, stdin, stdout>>

Next ==
    \/ Validate
    \/ Interactive
    \/ Backup
    \/ AppendFast
    \/ LoadBuffer
    \/ Clear
    \/ Insert
    \/ InsertEmpty
    \/ DefaultAppendEmpty
    \/ WriteResult
    \/ NextFile

Spec == Init /\ [][Next]_vars

SpecRun == InitRun /\ [][Next]_vars

\* ------------------------------------------------------------------ claims
\* what the current file held before the invocation, and the buffer the
\* Loader makes of it
Original == ReadContent(fs0[path])

Loaded == Load(Original)

ClearStart == Unwrap(cfg.clear_range)[1]

ClearEnd == Unwrap(cfg.clear_range)[2]

EngineBranches == {"insert", "overwrite", "clear", "default"}

\* C1: after a commit of a non-append operation on a file whose content ended
\* with '\n', the file is the buffer's lines joined by '\n' followed by
\* exactly one '\n'.
C1_CommitKeepsTrailingNewline ==
    (pc = "next" /\ ~cfg.dry_run /\ branch \in EngineBranches
        /\ EndsWithNL(Original))
    => fs[path].data = Join(lines) \o <<NL>>

\* C2: a non-overwrite insert of text at line address i+1, 0 <= i <= len(L),
\* gives a buffer of len(L)+1 lines with text at position i and the lines
\* of L, in order, around it.
C2_InsertAddsOneLine ==
    (pc = "write" /\ branch = "insert" /\ IsSome(insert_text))
    => LET i == UnwrapOr(cfg.line_num, 1) - 1
       IN  i <= Len(Loaded)
           => /\ Len(lines) = Len(Loaded) + 1
              /\ lines[i + 1] = Unwrap(insert_text)
              /\ SubSeq(lines, 1, i) \o SubSeq(lines, i + 2, Len(lines)) = Loaded

\* the lines of L outside the 1-based addresses start..end
Outside(L, start, end) == SubSeq(L, 1, start - 1) \o SubSeq(L, end + 1, Len(L))

ClearRangeDone == pc = "write" /\ branch = "clear" /\ IsSome(ClearEnd)

\* C3 as stated: clear(L, start, end) removes exactly end-start elements, those
\* in the 0-based range [start-1, end), and keeps the others in order (checked
\* where some line remains, so that the normalisation plays no part).
C3_ClearRemovesEndMinusStart ==
    (ClearRangeDone /\ Outside(Loaded, ClearStart, Unwrap(ClearEnd)) # <<>>)
    => /\ lines = Outside(Loaded, ClearStart, Unwrap(ClearEnd))
       /\ Len(Loaded) - Len(lines) = Unwrap(ClearEnd) - ClearStart

\* C3 amended: clear(L, start, end) removes exactly end-start+1 elements, those
\* in the 0-based range [start-1, end), and keeps the others in order; when
\* that removes every line the buffer is the single empty line.
C3_ClearRemovesInclusiveRange ==
    ClearRangeDone
    => LET rest == Outside(Loaded, ClearStart, Unwrap(ClearEnd))
       IN  /\ Len(rest) = Len(Loaded) - (Unwrap(ClearEnd) - ClearStart + 1)
           /\ lines = IF rest = <<>> THEN << <<>> >> ELSE rest

C3_Witness ==
    /\ ClearRangeDone
    /\ ClearStart < Unwrap(ClearEnd)
    /\ Len(Loaded) = 3
    /\ lines = << <<"b">> >>

AddressErrors == {"StartBeyondEnd", "EndBeyondEnd"}

\* the clear branch has run on the loaded buffer
ClearRan ==
    IsSome(cfg.clear_range) /\ (branch = "clear" \/ errKind \in AddressErrors)

\* C4: a clear on the loaded buffer fails with StartBeyondEnd exactly when
\* start-1 >= len, with EndBeyondEnd exactly when otherwise end is given and
\* end > len, and succeeds otherwise; when it fails the target file is as it
\* was before the invocation, with and without --dry-run.
C4_ClearFailsOnlyOutOfRange ==
    ClearRan
    => LET n == Len(Loaded)
           sbe == ClearStart - 1 >= n
           ebe == IsSome(ClearEnd) /\ Unwrap(ClearEnd) > n
       IN  /\ errKind = "StartBeyondEnd" <=> sbe
           /\ errKind = "EndBeyondEnd" <=> (~sbe /\ ebe)
           /\ branch = "clear" <=> (~sbe /\ ~ebe)
           /\ errKind \in AddressErrors
                => result = "err" /\ pc = "failed" /\ fs[path] = fs0[path]

C4_Witness ==
    /\ errKind = "StartBeyondEnd"
    /\ ~cfg.dry_run
    /\ fs[path] = File(<<"a", NL>>, FALSE)
    /\ ClearStart = 3

\* C5: --append text through the fast path leaves the file that Loader ->
\* push text -> Writer leaves, and under --dry-run prints what a commit
\* leaves in the file.
C5_AppendFastPathIsLoadPushSave ==
    (pc = "next" /\ branch = "append" /\ IsSome(cfg.append_text))
    => LET text == Unwrap(append_text)
       IN  /\ ~cfg.dry_run
                => fs[path].data = Serialize(Append(Loaded, text), Original)
           /\ cfg.dry_run => stdout = AppendCommit(Original, text)

\* C6: with no operation flag the committed file is the one --append ""
\* leaves on the same initial file.
C6_DefaultIsAppendEmpty ==
    (pc = "next" /\ branch = "default" /\ ~cfg.dry_run)
    => fs[path].data = AppendCommit(Original, <<>>)

\* C7: under --dry-run no target file and no .bak file is created or changed.
C7_DryRunLeavesFilesystem ==
    cfg.dry_run => fs = fs0 /\ \A p \in DOMAIN bak : bak[p] = Absent

C9_BufferNeverEmpty ==
    /\ (pc = "apply" \/ branch \in EngineBranches) => Len(lines) >= 1
    /\ (pc = "apply" /\ Original = <<>>) => lines = << <<>> >>
    /\ (pc = "write" /\ branch = "clear" /\ ClearStart = 1
            /\ (IsSome(ClearEnd) => Unwrap(ClearEnd) = Len(Loaded)))
        => lines = << <<>> >>

C9_Witness ==
    /\ pc = "write"
    /\ branch = "clear"
    /\ Len(Loaded) = 3
    /\ Loaded[1] # <<>>
    /\ lines = << <<>> >>

\* C10: under --interactive without --clear and without --append, the file is
\* changed by an insert or overwrite, never by an end-of-file append.
C10_InteractiveKeepsOperation ==
    (pc = "next" /\ cfg.interactive /\ ~IsSome(cfg.clear_range)
        /\ ~IsSome(cfg.append_text))
    => branch \in {"insert", "overwrite"}

====
